---- MODULE Spec2Model ----
(***************************************************************************)
(* Model of backend/rag_api_service/app.py: the POST /api/chat request     *)
(* (chat_with_graph), the singleton store handle (get_neo4j_driver), the   *)
(* vector-index setup (create_vector_indexes), the hybrid retrieval        *)
(* (retrieve_graph_context) and the error handlers.                        *)
(*                                                                         *)
(* Text is a sequence of string tokens: an f-string is the sequence of its *)
(* literal pieces and interpolated values, "\n".join is concatenation with *)
(* a "\n" token between the parts.  Where the code looks inside a string   *)
(* (split, lower, CONTAINS) the string is taken character by character     *)
(* through Chars.                                                          *)
(***************************************************************************)
EXTENDS Integers, Sequences, FiniteSets, TLC

(***************************************************************************)
(* Bounds of the model.                                                    *)
(***************************************************************************)
MaxTurns == 7
MaxHits == 2

(***************************************************************************)
(* Program constants.                                                      *)
(***************************************************************************)
desired_dim == 3072
EmbeddingDim == 3072
StaleDim == 768
HistoryWindow == 5
VectorK == 5
TraversalLimit == 20
MaxPathLength == 3
PathLimit == 3
KeywordLimit == 5
FileEntitiesLimit == 8
MinKeywordLen == 2

NULL == "<null>"

Workers == {"w1", "w2"}

(***************************************************************************)
(* Sequence helpers.                                                       *)
(***************************************************************************)
Range(s) == {s[i] : i \in 1..Len(s)}

Min(a, b) == IF a < b THEN a ELSE b
Max(a, b) == IF a > b THEN a ELSE b

\* The sequences without repetition over the set S, of length at most n.
RECURSIVE Arrangements(_, _)
Arrangements(S, n) ==
    IF n = 0 \/ S = {} THEN {<<>>}
    ELSE {<<>>} \cup UNION {{<<x>> \o t : t \in Arrangements(S \ {x}, n - 1)} : x \in S}

\* A set of node ids as a list, in increasing id order.
RECURSIVE SortedSeq(_)
SortedSeq(S) ==
    IF S = {} THEN <<>>
    ELSE LET m == CHOOSE x \in S : \A y \in S : x <= y
         IN  <<m>> \o SortedSeq(S \ {m})

(***************************************************************************)
(* Strings, character by character.                                        *)
(***************************************************************************)
Chars(s) ==
    CASE s = "" -> <<>>
      [] s = "foo" -> <<"f", "o", "o">>
      [] s = "bar" -> <<"b", "a", "r">>
      [] s = "a.py" -> <<"a", ".", "p", "y">>
      [] s = "x-y.py" -> <<"x", "-", "y", ".", "p", "y">>
      [] s = "calls bar" -> <<"c", "a", "l", "l", "s", " ", "b", "a", "r">>
      [] s = "use Foo" -> <<"u", "s", "e", " ", "F", "o", "o">>
      [] s = "the bar" -> <<"t", "h", "e", " ", "b", "a", "r">>
      [] s = "how to" -> <<"h", "o", "w", " ", "t", "o">>
      [] s = "baz" -> <<"b", "a", "z">>
      [] s = "zzz" -> <<"z", "z", "z">>
      [] s = "Use foo" -> <<"U", "s", "e", " ", "f", "o", "o">>
      [] s = "THE bar" -> <<"T", "H", "E", " ", "b", "a", "r">>
      [] s = "bar how" -> <<"b", "a", "r", " ", "h", "o", "w">>
      [] s = " the  bar" -> <<" ", "t", "h", "e", " ", " ", "b", "a", "r">>
      [] s = "to" -> <<"t", "o">>

LowerChar(c) ==
    CASE c = "F" -> "f"
      [] c = "U" -> "u"
      [] c = "T" -> "t"
      [] c = "H" -> "h"
      [] c = "E" -> "e"
      [] OTHER -> c

\* str.lower() / toLower() on a character sequence.
Lower(cs) == [i \in 1..Len(cs) |-> LowerChar(cs[i])]

\* str.lower() on the labels the service renders.
PyLower(s) ==
    CASE s = "Function" -> "function"
      [] s = "File" -> "file"
      [] s = "Python" -> "python"
      [] s = "Entity" -> "entity"
      [] OTHER -> s

\* str.capitalize() on the roles of a conversation.
Capitalize(s) ==
    CASE s = "user" -> "User"
      [] s = "assistant" -> "Assistant"
      [] s = "unknown" -> "Unknown"
      [] OTHER -> s

\* The pieces of cs between occurrences of the separators in seps; empty
\* pieces are kept (Cypher's split, and the base of Python's str.split()).
RECURSIVE SplitOn(_, _, _)
SplitOn(cs, seps, cur) ==
    IF cs = <<>> THEN <<cur>>
    ELSE IF Head(cs) \in seps THEN <<cur>> \o SplitOn(Tail(cs), seps, <<>>)
         ELSE SplitOn(Tail(cs), seps, Append(cur, Head(cs)))

\* Python's str.split() with no argument: runs of whitespace separate, and
\* no empty word is produced.
PySplit(cs) == SelectSeq(SplitOn(cs, {" "}, <<>>), LAMBDA w : w # <<>>)

\* Cypher's and Python's substring test.
Contains(hay, needle) ==
    \E i \in 0..(Len(hay) - Len(needle)) :
        \A j \in 1..Len(needle) : hay[i + j] = needle[j]

StopWords ==
    {<<"t", "h", "e">>, <<"a", "n", "d">>, <<"f", "o", "r">>, <<"w", "i", "t", "h">>,
     <<"w", "h", "a", "t">>, <<"h", "o", "w">>, <<"w", "h", "y">>,
     <<"w", "h", "e", "r", "e">>, <<"w", "h", "e", "n">>, <<"w", "h", "o">>,
     <<"w", "h", "i", "c", "h">>}

\* Mutant: the stop words taken out before the words are lowered.
KeywordList_StopFirst(cs) ==
    LET words == PySplit(cs)
        long == SelectSeq(words, LAMBDA w : Len(w) > MinKeywordLen)
        kept == SelectSeq(long, LAMBDA w : w \notin StopWords)
    IN  [i \in 1..Len(kept) |-> Lower(kept[i])]

\* The two comprehensions of the keyword stage on the characters of a
\* query: the words longer than MinKeywordLen, lowered, then the ones that
\* are no stop word.
KeywordList(cs) ==
    LET words == PySplit(cs)
        long == SelectSeq(words, LAMBDA w : Len(w) > MinKeywordLen)
        lowered == [i \in 1..Len(long) |-> Lower(long[i])]
    IN  SelectSeq(lowered, LAMBDA w : w \notin StopWords)

\* The keyword list of a query.
Keywords(q) == KeywordList(Chars(q))

\* What an f-string prints for a value: None for a null.
Str(v) == IF v = NULL THEN "None" ELSE v

\* "\n".join(parts), each part a token sequence.
RECURSIVE JoinLines(_)
JoinLines(parts) ==
    IF parts = <<>> THEN <<>>
    ELSE IF Len(parts) = 1 THEN parts[1]
         ELSE parts[1] \o <<"\n">> \o JoinLines(Tail(parts))

(***************************************************************************)
(* The knowledge graph held by the store.  The nodes are fixed; the        *)
(* relationships are chosen at the start.                                  *)
(***************************************************************************)
Node(i) ==
    CASE i = 1 -> [labels |-> <<"Function">>, name |-> "foo", file_path |-> "a.py",
                   path |-> NULL, description |-> "calls bar",
                   context_sample |-> "def foo", repo_id |-> NULL]
      [] i = 2 -> [labels |-> <<"Function">>, name |-> "bar", file_path |-> "a.py",
                   path |-> NULL, description |-> NULL,
                   context_sample |-> NULL, repo_id |-> NULL]
      [] i = 3 -> [labels |-> <<"File", "PythonModule">>, name |-> "a.py",
                   file_path |-> NULL, path |-> "a.py", description |-> NULL,
                   context_sample |-> NULL, repo_id |-> "repo1"]
      [] i = 4 -> [labels |-> <<"Function">>, name |-> "baz", file_path |-> "x-y.py",
                   path |-> NULL, description |-> NULL,
                   context_sample |-> NULL, repo_id |-> NULL]

NodeIds == {1, 2, 3, 4}

CandidateEdges == {<<1, "CALLS", 2>>, <<3, "CONTAINS", 1>>, <<2, "USES", 4>>}

TraversalRels ==
    {"CALLS", "USES", "DEFINES", "CONTAINS", "IMPORTS", "DEPENDS_ON", "READS_FROM",
     "WRITES_TO"}

FileLabels ==
    {"File", "SourceFile", "PythonModule", "JavaScriptModule", "CobolProgram",
     "SasProgram", "JclJob", "FlinkJob", "DataFile", "CppFile", "FortranProgram",
     "PliProgram", "AssemblyFile", "RpgProgram"}

HasLabel(i, l) == l \in Range(Node(i).labels)

Coalesce(a, b) == IF a # NULL THEN a ELSE b

\* One row of an entity query: name, first label, the file path the query
\* projects, description and code sample.
Row(i, fp) ==
    [name |-> Node(i).name, type |-> Node(i).labels[1], filePath |-> fp,
     description |-> Node(i).description, code |-> Node(i).context_sample]

\* The nodes a vector index can return: db.index.vector.queryNodes on
\* function_index with the WHERE of function_query, and on file_index.
FunctionIndexNodes ==
    {i \in NodeIds : HasLabel(i, "Function") /\ Node(i).file_path # NULL}
FileIndexNodes == {i \in NodeIds : HasLabel(i, "File")}

\* The answers of a vector query: the nodes scoring above the threshold, at
\* most k of them, in descending score; the scores are the store's.
VectorAnswers(S) == Arrangements(S, Min(VectorK, MaxHits))

FunctionRows(hits) == [k \in 1..Len(hits) |-> Row(hits[k], Node(hits[k]).file_path)]
FileRows(hits) == [k \in 1..Len(hits) |-> Row(hits[k], Node(hits[k]).path)]

\* f"{res['name']}-{res['filePath']}", as characters.
EntityId(res) == Chars(res.name) \o <<"-">> \o Chars(res.filePath)

\* split(entityId, '-')[0] AS name, split(entityId, '-')[1] AS filePath:
\* the first two pieces, the second null when there is none.
SplitEntityId(entityId) ==
    LET parts == SplitOn(entityId, {"-"}, <<>>)
    IN  [name |-> parts[1], filePath |-> IF Len(parts) >= 2 THEN parts[2] ELSE NULL]

\* The start nodes of the traversal for one entity id.
TraversalStarts(entityId) ==
    LET name == SplitEntityId(entityId).name
        filePath == SplitEntityId(entityId).filePath
    IN  {i \in NodeIds :
            \/ /\ HasLabel(i, "Function")
               /\ Chars(Node(i).name) = name
               /\ filePath # NULL /\ Node(i).file_path # NULL
               /\ Chars(Node(i).file_path) = filePath
            \/ /\ HasLabel(i, "File")
               /\ filePath # NULL /\ Node(i).path # NULL
               /\ Chars(Node(i).path) = filePath}

\* The start nodes of the traversal: the MATCH under the UNWIND of the ids.
StartNodes(entityIds) ==
    UNION {TraversalStarts(entityIds[k]) : k \in 1..Len(entityIds)}

Adjacent(E, rels, a, b) ==
    \E e \in E : e[2] \in rels /\ ((e[1] = a /\ e[3] = b) \/ (e[1] = b /\ e[3] = a))

Neighbours(E, rels, a) == {b \in NodeIds : Adjacent(E, rels, a, b)}

\* apoc.path.expandConfig from start, minLevel 1, maxLevel 2, NODE_GLOBAL,
\* then WHERE node <> start: the end nodes of the paths.
Expand(E, start) ==
    LET one == Neighbours(E, TraversalRels, start) \ {start}
        two == UNION {Neighbours(E, TraversalRels, n) : n \in one}
    IN  ((one \cup two) \ {start})

TraversalRow(i) == Row(i, Coalesce(Node(i).file_path, Node(i).path))

\* traversal_query: the distinct rows of the nodes reached from the starts
\* of every entity id, at most TraversalLimit of them.
TraversalAnswers(E, entityIds) ==
    LET reached == UNION {Expand(E, s) : s \in StartNodes(entityIds)}
    IN  {[k \in 1..Len(t) |-> TraversalRow(t[k])] :
            t \in {SortedSeq(S) : S \in {X \in SUBSET reached :
                        Cardinality(X) = Min(TraversalLimit, Cardinality(reached))}}}

AllRels == {e[2] : e \in CandidateEdges}

\* apoc.algo.allSimplePaths(a, b, null, 3): the node sequences from a to b
\* without a repeated node, of at most MaxPathLength relationships.
SimplePaths(E, a, b) ==
    {p \in Arrangements(NodeIds, MaxPathLength + 1) :
        /\ Len(p) >= 2
        /\ p[1] = a /\ p[Len(p)] = b
        /\ \A k \in 1..(Len(p) - 1) : Adjacent(E, AllRels, p[k], p[k + 1])}

\* path_query: the distinct rows of the nodes on the PathLimit shortest
\* simple paths between the nodes named entity1 and entity2.
PathAnswers(E, entity1, entity2) ==
    LET paths == UNION {SimplePaths(E, a, b) :
                        a \in {i \in NodeIds : Node(i).name = entity1},
                        b \in {i \in NodeIds : Node(i).name = entity2}}
        kept == {P \in SUBSET paths :
                    /\ Cardinality(P) = Min(PathLimit, Cardinality(paths))
                    /\ \A p \in P, q \in paths \ P : Len(p) <= Len(q)}
    IN  {[k \in 1..Len(t) |-> TraversalRow(t[k])] :
            t \in {SortedSeq(UNION {Range(p) : p \in P}) : P \in kept}}

\* name_query and desc_query: the nodes whose lowered field contains a
\* keyword, at most KeywordLimit of them, projected with n.file_path.
FieldMatches(value, keywords) ==
    /\ value # NULL
    /\ \E k \in 1..Len(keywords) : Contains(Lower(Chars(value)), keywords[k])

NameMatches(keywords) == {i \in NodeIds : FieldMatches(Node(i).name, keywords)}

DescriptionMatches(keywords) ==
    {i \in NodeIds : FieldMatches(Node(i).description, keywords)}

KeywordAnswers(matches) ==
    {[k \in 1..Len(t) |-> Row(t[k], Node(t[k]).file_path)] :
        t \in {SortedSeq(S) : S \in {X \in SUBSET matches :
                    Cardinality(X) = Min(KeywordLimit, Cardinality(matches))}}}

\* file_query of the file-context stage.
FileContextAnswers(filePaths) ==
    LET found == {i \in NodeIds :
                    /\ \E l \in FileLabels : HasLabel(i, l)
                    /\ (Node(i).path \in filePaths \/ Node(i).file_path \in filePaths)}
        t == SortedSeq(found)
    IN  [k \in 1..Len(t) |->
            [path |-> Coalesce(Node(t[k]).path, Node(t[k]).file_path),
             repoId |-> Node(t[k]).repo_id, fileLabels |-> Node(t[k]).labels]]

\* file_entities_query: the nodes a node of that path CONTAINS, at most
\* FileEntitiesLimit of them.
FileEntitiesAnswers(E, path) ==
    LET found == {i \in NodeIds :
                    \E e \in E :
                        /\ e[2] = "CONTAINS" /\ e[3] = i
                        /\ (Node(e[1]).path = path \/ Node(e[1]).file_path = path)}
    IN  {[k \in 1..Len(t) |-> [name |-> Node(t[k]).name, type |-> Node(t[k]).labels[1]]] :
            t \in {SortedSeq(S) : S \in {X \in SUBSET found :
                        Cardinality(X) = Min(FileEntitiesLimit, Cardinality(found))}}}

(***************************************************************************)
(* The evidence sentences of retrieve_graph_context.                       *)
(***************************************************************************)
Truthy(v) == v # NULL /\ v # ""

\* The Markdown code fence (three backquotes), written with tildes here.
Fence == "~~~"

CodeBlock(res) ==
    IF Truthy(res.code)
    THEN <<"\nCode:\n" \o Fence \o "\n", res.code, "\n" \o Fence>>
    ELSE <<>>

VectorSentence(res) ==
    <<"In file '", Str(res.filePath), "', there is a ", PyLower(res.type),
      " called '", Str(res.name), "'. ", Str(res.description)>> \o CodeBlock(res)

TraversalSentence(res) ==
    <<"Via graph traversal: In file '", Str(res.filePath), "', there is a ",
      PyLower(res.type), " called '", Str(res.name), "'. ", Str(res.description)>>
    \o CodeBlock(res)

PathSentence(res) ==
    <<"Via path connection: In file '", Str(res.filePath), "', there is a ",
      PyLower(res.type), " called '", Str(res.name), "'. ", Str(res.description)>>
    \o CodeBlock(res)

NameSentence(res) ==
    <<"Found a ", PyLower(res.type), " named '", Str(res.name), "' in '",
      Str(res.filePath), "' that matches your query. ", Str(res.description)>>
    \o CodeBlock(res)

DescSentence(res) ==
    <<"The ", PyLower(res.type), " '", Str(res.name), "' in '", Str(res.filePath),
      "' appears relevant to your question. ", Str(res.description)>>
    \o CodeBlock(res)

\* label.replace('File', '').replace('Program', '').replace('Module', '')
\* .replace('Job', '') on the file labels of the graph.
StripSuffixes(label) ==
    CASE label = "PythonModule" -> "Python"
      [] label = "SourceFile" -> "Source"
      [] OTHER -> label

\* The first label that is not 'File', stripped; "file" when there is none.
FileType(labels) ==
    LET other == SelectSeq(labels, LAMBDA l : l # "File")
    IN  IF other = <<>> THEN "file" ELSE StripSuffixes(other[1])

FileSummarySentence(res) ==
    <<"The ", PyLower(FileType(res.fileLabels)), " file '", Str(res.path),
      "' is part of repository '", Str(res.repoId), "'.">>

\* ", ".join of the f"{e_type} '{e_name}'" of the entities with a name.
RECURSIVE EntitiesStr(_)
EntitiesStr(es) ==
    IF es = <<>> THEN <<>>
    ELSE LET one == <<PyLower(es[1].type), " '", es[1].name, "'">>
         IN  IF Len(es) = 1 THEN one ELSE one \o <<", ">> \o EntitiesStr(Tail(es))

FileListingSentence(path, es) ==
    <<"The file '", Str(path), "' contains: ">> \o EntitiesStr(es) \o <<".">>

VectorSentences(rows) == [k \in 1..Len(rows) |-> VectorSentence(rows[k])]
TraversalSentences(rows) == [k \in 1..Len(rows) |-> TraversalSentence(rows[k])]
PathSentences(rows) == [k \in 1..Len(rows) |-> PathSentence(rows[k])]
NameSentences(rows) == [k \in 1..Len(rows) |-> NameSentence(rows[k])]
DescSentences(rows) == [k \in 1..Len(rows) |-> DescSentence(rows[k])]

\* Mutant: the sentences put in front of the list instead of at its end.
AppendAll_Front(context, sentences) == sentences \o context

\* context.append of each sentence, in order.
AppendAll(context, sentences) == context \o sentences

Sentinel == <<"No specific context found in the graph.">>

\* Mutant: the return statement without the sentinel branch.
ContextString_NoSentinel(context) == JoinLines(context)

\* The return statement of retrieve_graph_context.
ContextString(context) ==
    IF context = <<>> THEN Sentinel ELSE JoinLines(context)

(***************************************************************************)
(* The error handlers and the responses of the service.                    *)
(***************************************************************************)
Envelope(status, message, error_type) ==
    [status |-> status,
     body |-> [status |-> status, message |-> message, error_type |-> error_type]]

handle_bad_request ==
    Envelope(400, "Bad Request: Invalid request data.", "BadRequest")

handle_not_found ==
    Envelope(404, "Not Found: The requested resource does not exist.", "NotFound")

handle_db_connection_error ==
    Envelope(500, "Internal Server Error: Could not connect to the database. Please try again later.",
             "DatabaseConnectionError")

handle_google_api_error ==
    Envelope(500, "Internal Server Error: Google Cloud API issue.", "GoogleAPIError")

handle_generic_error ==
    Envelope(500, "Internal Server Error: An unexpected error occurred. Please try again or contact support.",
             "InternalServerError")

\* Mutant: no handler registered for GoogleAPIError.
HandleException_NoGoogle(exc) ==
    CASE exc = "BadRequest" -> handle_bad_request
      [] exc = "NotFound" -> handle_not_found
      [] exc = "ConnectionError" -> handle_db_connection_error
      [] OTHER -> handle_generic_error

\* The handler Flask picks for an exception leaving a view.
HandleException(exc) ==
    CASE exc = "BadRequest" -> handle_bad_request
      [] exc = "NotFound" -> handle_not_found
      [] exc = "ConnectionError" -> handle_db_connection_error
      [] exc = "GoogleAPIError" -> handle_google_api_error
      [] OTHER -> handle_generic_error

MissingQueryResponse ==
    [status |-> 400, body |-> [response |-> "Please provide a query."]]

NoEmbeddingResponse ==
    [status |-> 500,
     body |-> [response |-> "Could not generate embeddings for your query. Please try again.",
               context_used |-> ""]]

ChatResponse(text, graph_context) ==
    [status |-> 200, body |-> [response |-> text, context_used |-> graph_context]]

(***************************************************************************)
(* The synthesis prompt.                                                   *)
(***************************************************************************)
\* s[start:] of Python, start possibly negative.
PySliceFrom(s, start) ==
    LET from == IF start < 0 THEN Max(Len(s) + start, 0) ELSE Min(start, Len(s))
    IN  SubSeq(s, from + 1, Len(s))

RECURSIVE TurnLines(_)
TurnLines(msgs) ==
    IF msgs = <<>> THEN <<>>
    ELSE <<Capitalize(Head(msgs).role), ": ", Head(msgs).content, "\n">>
         \o TurnLines(Tail(msgs))

\* Mutant: the first turns of the history instead of the last.
PromptTurns_First(history) == SubSeq(history, 1, Min(HistoryWindow, Len(history)))

\* The turns of the history the prompt shows.
PromptTurns(history) == PySliceFrom(history, 0 - HistoryWindow)

ConversationContext(history) ==
    IF history = <<>> THEN <<>>
    ELSE <<"Previous conversation:\n">> \o TurnLines(PromptTurns(history))

Prompt(history, user_query, graph_context) ==
    <<"You are a codebase expert assistant. [...]\n">>
    \o ConversationContext(history)
    \o <<"User Question: ", user_query, "\nContext from Knowledge Graph:\n---\n">>
    \o graph_context \o <<"\n---\n">>

(***************************************************************************)
(* The inputs of a request.                                                *)
(***************************************************************************)
Queries == {"use Foo", "the bar", "how to", "zzz"}

Turn(i) ==
    [role |-> IF i % 2 = 1 THEN "user" ELSE "assistant", content |-> "t" \o ToString(i)]

History(n) == [i \in 1..n |-> Turn(i)]

Histories == {History(n) : n \in 0..MaxTurns}

IndexNames == <<"file_index", "function_index">>

StoreErrors == {"Neo4jError", "ServiceUnavailable"}

(***************************************************************************)
(* State.                                                                  *)
(***************************************************************************)
VARIABLES
    neo4j_driver,   \* the global store handle: NULL, or the driver a worker made
    verified,       \* the drivers whose verify_connectivity has succeeded
    indexDim,       \* the store's vector indexes: dimension, 0 when absent
    edges,          \* the relationships of the graph
    local           \* per worker: the position and the locals of its request

vars == <<neo4j_driver, verified, indexDim, edges, local>>

InitLocal ==
    [pc |-> "idle", user_query |-> NULL, history |-> <<>>, driver |-> NULL,
     existing |-> <<>>, creating |-> 1, query_embedding |-> 0,
     function_results |-> <<>>, entity_results |-> <<>>,
     traversal_results |-> <<>>, path_results |-> <<>>, name_results |-> <<>>,
     desc_results |-> <<>>, file_results |-> <<>>, context |-> <<>>,
     keywords |-> <<>>, entity_ids |-> <<>>, start_nodes |-> {}, top_entities |-> <<>>,
     calls |-> <<>>, index_seen |-> <<>>, failed |-> "none", unreachable |-> FALSE,
     raised |-> "none",
     graph_context |-> <<>>, prompt |-> <<>>, response |-> [status |-> 0]]

\* At start-up no driver exists; the store holds both vector indexes with
\* the desired dimension, both with a stale one, or neither, and any subset
\* of the candidate relationships.
Init ==
    /\ neo4j_driver = NULL
    /\ verified = {}
    /\ \E d \in {0, StaleDim, desired_dim} : indexDim = [n \in Range(IndexNames) |-> d]
    /\ edges \in SUBSET CandidateEdges
    /\ local = [w \in Workers |-> InitLocal]

Set(w, l) == local' = [local EXCEPT ![w] = l]

\* The request ends with this response.
Respond(l, r) == [l EXCEPT !.pc = "done", !.response = r]

\* The exception exc leaves the view: Flask answers with its handler.
Raise(l, exc) == [Respond(l, HandleException(exc)) EXCEPT !.raised = exc]

\* A call to a collaborator (connectivity check, embedding, retrieval query,
\* generation), recorded in the order made.
Called(l, what) == [l EXCEPT !.calls = Append(@, what)]

\* A store failure inside the request of l.
StoreFailed(l, err) ==
    [l EXCEPT !.unreachable = @ \/ (err = "ServiceUnavailable")]

(***************************************************************************)
(* chat_with_graph: the request arrives.                                   *)
(***************************************************************************)
\* Mutant: the view does not test the query before it starts the work.
ChatReceive_Unchecked(w, q, h) ==
    LET l == local[w]
        got == [l EXCEPT !.user_query = q, !.history = h]
    IN  /\ l.pc = "idle"
        /\ Set(w, [got EXCEPT !.pc = "get_driver"])
        /\ UNCHANGED <<neo4j_driver, verified, indexDim, edges>>

ChatReceive(w, q, h) ==
    LET l == local[w]
        got == [l EXCEPT !.user_query = q, !.history = h]
    IN  /\ l.pc = "idle"
        /\ IF ~Truthy(q)
           THEN Set(w, Respond(got, MissingQueryResponse))
           ELSE Set(w, [got EXCEPT !.pc = "get_driver"])
        /\ UNCHANGED <<neo4j_driver, verified, indexDim, edges>>

\* request.json rejects the body: Flask raises 400 before the view's code.
ChatBadBody(w) ==
    LET l == local[w]
    IN  /\ l.pc = "idle"
        /\ Set(w, Raise(l, "BadRequest"))
        /\ UNCHANGED <<neo4j_driver, verified, indexDim, edges>>

\* A request for a path the service does not route.
UnknownRoute(w) ==
    LET l == local[w]
    IN  /\ l.pc = "idle"
        /\ Set(w, Raise(l, "NotFound"))
        /\ UNCHANGED <<neo4j_driver, verified, indexDim, edges>>

(***************************************************************************)
(* get_neo4j_driver, one step per statement.                               *)
(***************************************************************************)
DriverCheck(w) ==
    LET l == local[w]
    IN  /\ l.pc = "get_driver"
        /\ IF neo4j_driver = NULL
           THEN Set(w, [l EXCEPT !.pc = "drv_new"])
           ELSE Set(w, [l EXCEPT !.pc = "embed", !.driver = neo4j_driver])
        /\ UNCHANGED <<neo4j_driver, verified, indexDim, edges>>

DriverNew(w) ==
    LET l == local[w]
    IN  /\ l.pc = "drv_new"
        /\ neo4j_driver' = w
        /\ Set(w, [l EXCEPT !.pc = "drv_verify"])
        /\ UNCHANGED <<verified, indexDim, edges>>

DriverVerify(w) ==
    LET l == Called(local[w], "verify_connectivity")
    IN  /\ l.pc = "drv_verify"
        /\ \/ /\ verified' = verified \cup {neo4j_driver}
              /\ Set(w, [l EXCEPT !.pc = "idx_show"])
           \/ /\ Set(w, Raise(StoreFailed(l, "ServiceUnavailable"), "ConnectionError"))
              /\ UNCHANGED verified
        /\ UNCHANGED <<neo4j_driver, indexDim, edges>>

(***************************************************************************)
(* create_vector_indexes, one step per statement run on the session.       *)
(***************************************************************************)
ExistingIndexes(dims) == SelectSeq(IndexNames, LAMBDA n : dims[n] # 0)

IdxShow(w) ==
    LET l == local[w]
    IN  /\ l.pc = "idx_show"
        /\ \/ LET found == ExistingIndexes(indexDim)
              IN  Set(w, [l EXCEPT !.existing = found,
                                   !.pc = IF found = <<>> THEN "idx_create" ELSE "idx_drop"])
           \/ \E err \in StoreErrors :
                Set(w, [StoreFailed(l, err) EXCEPT !.pc = "idx_create"])
        /\ UNCHANGED <<neo4j_driver, verified, indexDim, edges>>

IdxDrop(w) ==
    LET l == local[w]
        name == Head(l.existing)
    IN  /\ l.pc = "idx_drop"
        /\ \/ /\ indexDim[name] # 0
              /\ indexDim' = [indexDim EXCEPT ![name] = 0]
              /\ Set(w, [l EXCEPT !.existing = Tail(@),
                                  !.pc = IF Tail(l.existing) = <<>> THEN "idx_create"
                                         ELSE "idx_drop"])
           \/ /\ \E err \in StoreErrors :
                    Set(w, [StoreFailed(l, err) EXCEPT !.pc = "idx_create"])
              /\ UNCHANGED indexDim
        /\ UNCHANGED <<neo4j_driver, verified, edges>>

\* CREATE VECTOR INDEX ... IF NOT EXISTS with the desired dimension.
CreateIfNotExists(dims, name) ==
    IF dims[name] = 0 THEN [dims EXCEPT ![name] = desired_dim] ELSE dims

IdxCreate(w) ==
    LET l == local[w]
        name == IndexNames[l.creating]
    IN  /\ l.pc = "idx_create"
        /\ \/ /\ indexDim' = CreateIfNotExists(indexDim, name)
              /\ Set(w, [l EXCEPT !.creating = @ + 1,
                                  !.pc = IF l.creating = Len(IndexNames) THEN "drv_return"
                                         ELSE "idx_create"])
           \/ /\ \E err \in StoreErrors :
                    Set(w, [StoreFailed(l, err) EXCEPT !.pc = "drv_return"])
              /\ UNCHANGED indexDim
        /\ UNCHANGED <<neo4j_driver, verified, edges>>

DriverReturn(w) ==
    LET l == local[w]
    IN  /\ l.pc = "drv_return"
        /\ Set(w, [l EXCEPT !.pc = "embed", !.driver = neo4j_driver,
                            !.existing = <<>>, !.creating = 1])
        /\ UNCHANGED <<neo4j_driver, verified, indexDim, edges>>

(***************************************************************************)
(* generate_embeddings and the check of its result in chat_with_graph.     *)
(***************************************************************************)
\* Mutant: the view does not check the embedding before it retrieves.
Embed_Unchecked(w) ==
    LET l == Called(local[w], "get_embeddings")
    IN  /\ l.pc = "embed"
        /\ \/ Set(w, [l EXCEPT !.query_embedding = EmbeddingDim, !.pc = "vec_fn"])
           \/ Set(w, [l EXCEPT !.pc = "vec_fn"])
           \/ \E exc \in {"GoogleAPIError", "Exception"} : Set(w, Raise(l, exc))
        /\ UNCHANGED <<neo4j_driver, verified, indexDim, edges>>

Embed(w) ==
    LET l == Called(local[w], "get_embeddings")
    IN  /\ l.pc = "embed"
        /\ \/ Set(w, [l EXCEPT !.query_embedding = EmbeddingDim, !.pc = "vec_fn"])
           \/ Set(w, Respond(l, NoEmbeddingResponse))
           \/ \E exc \in {"GoogleAPIError", "Exception"} :
                Set(w, Raise(l, exc))
        /\ UNCHANGED <<neo4j_driver, verified, indexDim, edges>>

(***************************************************************************)
(* retrieve_graph_context, one step per query run on the session.  Every   *)
(* query sits in the one try block of the function: a query that raises    *)
(* leaves the block for the return statement.                              *)
(***************************************************************************)
Raised(l, query, err) ==
    [StoreFailed(l, err) EXCEPT !.failed = query, !.pc = "ret"]

\* A vector query can be answered when the index has the dimension of the
\* query vector; against an absent or differently sized index it raises.
IndexAnswers(dims, name, embedding) == dims[name] # 0 /\ dims[name] = embedding

VecFunction(w) ==
    LET c == Called(local[w], "function_query")
        l == [c EXCEPT !.index_seen = Append(@, indexDim["function_index"])]
    IN  /\ l.pc = "vec_fn"
        /\ \/ /\ IndexAnswers(indexDim, "function_index", l.query_embedding)
              /\ \E hits \in VectorAnswers(FunctionIndexNodes) :
                    Set(w, [l EXCEPT !.function_results = FunctionRows(hits),
                                     !.pc = "vec_file"])
           \/ \E err \in StoreErrors : Set(w, Raised(l, "function_query", err))
        /\ UNCHANGED <<neo4j_driver, verified, indexDim, edges>>

EntityIds(entity_results) ==
    [k \in 1..Len(entity_results) |-> EntityId(entity_results[k])]

VecFile(w) ==
    LET c == Called(local[w], "file_query")
        l == [c EXCEPT !.index_seen = Append(@, indexDim["file_index"])]
    IN  /\ l.pc = "vec_file"
        /\ \/ /\ IndexAnswers(indexDim, "file_index", l.query_embedding)
              /\ \E hits \in VectorAnswers(FileIndexNodes) :
                    LET entity_results == l.function_results \o FileRows(hits)
                    IN  Set(w, [l EXCEPT
                            !.entity_results = entity_results,
                            !.entity_ids = EntityIds(entity_results),
                            !.context = AppendAll(@, VectorSentences(entity_results)),
                            !.pc = "traversal"])
           \/ \E err \in StoreErrors : Set(w, Raised(l, "file_query", err))
        /\ UNCHANGED <<neo4j_driver, verified, indexDim, edges>>

TraversalGuard(entity_results) == entity_results # <<>>

Traversal(w) ==
    LET l == local[w]
        c == [Called(l, "traversal_query") EXCEPT !.start_nodes = StartNodes(l.entity_ids)]
    IN  /\ l.pc = "traversal"
        /\ \/ /\ ~TraversalGuard(l.entity_results)
              /\ Set(w, [l EXCEPT !.pc = "path"])
           \/ /\ TraversalGuard(l.entity_results)
              /\ \E rows \in TraversalAnswers(edges, l.entity_ids) :
                    Set(w, [c EXCEPT
                            !.traversal_results = rows,
                            !.context = AppendAll(@, TraversalSentences(rows)),
                            !.pc = "path"])
           \/ /\ TraversalGuard(l.entity_results)
              /\ \E err \in StoreErrors : Set(w, Raised(c, "traversal_query", err))
        /\ UNCHANGED <<neo4j_driver, verified, indexDim, edges>>

PathGuard(entity_results) == Len(entity_results) >= 2

\* [res['name'] for res in entity_results[:2]]
TopEntities(entity_results) ==
    [k \in 1..Min(2, Len(entity_results)) |-> entity_results[k].name]

Path(w) ==
    LET l == local[w]
        top_entities == TopEntities(l.entity_results)
        c == [Called(l, "path_query") EXCEPT !.top_entities = top_entities]
    IN  /\ l.pc = "path"
        /\ \/ /\ ~PathGuard(l.entity_results)
              /\ Set(w, [l EXCEPT !.pc = "kw_name"])
           \/ /\ PathGuard(l.entity_results)
              /\ \E rows \in PathAnswers(edges, top_entities[1], top_entities[2]) :
                    Set(w, [c EXCEPT
                            !.path_results = rows,
                            !.context = AppendAll(@, PathSentences(rows)),
                            !.pc = "kw_name"])
           \/ /\ PathGuard(l.entity_results)
              /\ \E err \in StoreErrors : Set(w, Raised(c, "path_query", err))
        /\ UNCHANGED <<neo4j_driver, verified, indexDim, edges>>

KeywordGuard(user_query) == Keywords(user_query) # <<>>

KwName(w) ==
    LET l == [local[w] EXCEPT !.keywords = Keywords(local[w].user_query)]
        c == Called(l, "name_query")
    IN  /\ local[w].pc = "kw_name"
        /\ \/ /\ ~KeywordGuard(l.user_query)
              /\ Set(w, [l EXCEPT !.pc = "file_ctx"])
           \/ /\ KeywordGuard(l.user_query)
              /\ \E rows \in KeywordAnswers(NameMatches(Keywords(l.user_query))) :
                    Set(w, [c EXCEPT
                            !.name_results = rows,
                            !.context = AppendAll(@, NameSentences(rows)),
                            !.pc = "kw_desc"])
           \/ /\ KeywordGuard(l.user_query)
              /\ \E err \in StoreErrors : Set(w, Raised(c, "name_query", err))
        /\ UNCHANGED <<neo4j_driver, verified, indexDim, edges>>

KwDesc(w) ==
    LET l == Called(local[w], "desc_query")
    IN  /\ l.pc = "kw_desc"
        /\ \/ \E rows \in KeywordAnswers(DescriptionMatches(Keywords(l.user_query))) :
                    Set(w, [l EXCEPT
                            !.desc_results = rows,
                            !.context = AppendAll(@, DescSentences(rows)),
                            !.pc = "file_ctx"])
           \/ \E err \in StoreErrors : Set(w, Raised(l, "desc_query", err))
        /\ UNCHANGED <<neo4j_driver, verified, indexDim, edges>>

\* list(set(file_paths)): the truthy filePath values of the vector results.
FilePaths(entity_results) ==
    {entity_results[k].filePath : k \in {j \in 1..Len(entity_results) :
                                            Truthy(entity_results[j].filePath)}}

FileContextGuard(entity_results) ==
    entity_results # <<>> /\ FilePaths(entity_results) # {}

FileCtx(w) ==
    LET l == local[w]
        c == Called(l, "file_context_query")
    IN  /\ l.pc = "file_ctx"
        /\ \/ /\ ~FileContextGuard(l.entity_results)
              /\ Set(w, [l EXCEPT !.pc = "ret"])
           \/ /\ FileContextGuard(l.entity_results)
              /\ LET rows == FileContextAnswers(FilePaths(l.entity_results))
                 IN  Set(w, [c EXCEPT !.file_results = rows,
                                      !.pc = IF rows = <<>> THEN "ret" ELSE "file_entities"])
           \/ /\ FileContextGuard(l.entity_results)
              /\ \E err \in StoreErrors : Set(w, Raised(c, "file_context_query", err))
        /\ UNCHANGED <<neo4j_driver, verified, indexDim, edges>>

\* One turn of the loop over file_results: the summary sentence, then the
\* query for the entities of the file and the listing sentence.
FileEntities(w) ==
    LET l == Called(local[w], "file_entities_query")
        res == Head(l.file_results)
        summarised == [l EXCEPT !.context = AppendAll(@, <<FileSummarySentence(res)>>)]
    IN  /\ l.pc = "file_entities"
        /\ \/ \E file_entities \in FileEntitiesAnswers(edges, res.path) :
                LET named == SelectSeq(file_entities, LAMBDA e : Truthy(e.name))
                IN  Set(w, [summarised EXCEPT
                        !.context = IF named = <<>> THEN @
                                    ELSE AppendAll(@, <<FileListingSentence(res.path, named)>>),
                        !.file_results = Tail(@),
                        !.pc = IF Tail(l.file_results) = <<>> THEN "ret"
                               ELSE "file_entities"])
           \/ \E err \in StoreErrors :
                Set(w, Raised(summarised, "file_entities_query", err))
        /\ UNCHANGED <<neo4j_driver, verified, indexDim, edges>>

RetrieveReturn(w) ==
    LET l == local[w]
    IN  /\ l.pc = "ret"
        /\ Set(w, [l EXCEPT !.graph_context = ContextString(l.context), !.pc = "generate"])
        /\ UNCHANGED <<neo4j_driver, verified, indexDim, edges>>

(***************************************************************************)
(* chat_with_graph: the prompt and the generative model.                   *)
(***************************************************************************)
Generate(w) ==
    LET l == local[w]
        prompt == Prompt(l.history, l.user_query, l.graph_context)
        c == [Called(l, "generate_content") EXCEPT !.prompt = prompt]
    IN  /\ l.pc = "generate"
        /\ \/ Set(w, Respond(c, ChatResponse("answer", l.graph_context)))
           \/ \E exc \in {"GoogleAPIError", "Exception"} :
                Set(w, Raise(c, exc))
        /\ UNCHANGED <<neo4j_driver, verified, indexDim, edges>>

(***************************************************************************)
(* Specifications.  Spec follows one request from its arrival to its       *)
(* response.  SpecDriver runs the first requests of two workers side by    *)
(* side up to the first vector query.  SpecKeywords follows one request   *)
(* up to its keyword stage, over queries that differ in case, in stop      *)
(* words and in spacing.                                                   *)
(***************************************************************************)
Request(w) ==
    \/ \E q \in Queries \cup {NULL, ""}, h \in Histories : ChatReceive(w, q, h)
    \/ ChatBadBody(w)
    \/ UnknownRoute(w)
    \/ DriverCheck(w)
    \/ DriverNew(w)
    \/ DriverVerify(w)
    \/ IdxShow(w)
    \/ IdxDrop(w)
    \/ IdxCreate(w)
    \/ DriverReturn(w)
    \/ Embed(w)
    \/ VecFunction(w)
    \/ VecFile(w)
    \/ Traversal(w)
    \/ Path(w)
    \/ KwName(w)
    \/ KwDesc(w)
    \/ FileCtx(w)
    \/ FileEntities(w)
    \/ RetrieveReturn(w)
    \/ Generate(w)

Next == Request("w1")

Spec == Init /\ [][Next]_vars

DriverRequest(w) ==
    \/ ChatReceive(w, "zzz", <<>>)
    \/ DriverCheck(w)
    \/ DriverNew(w)
    \/ DriverVerify(w)
    \/ IdxShow(w)
    \/ IdxDrop(w)
    \/ IdxCreate(w)
    \/ DriverReturn(w)
    \/ Embed(w)
    \/ VecFunction(w)

NextDriver == \E w \in Workers : DriverRequest(w)

InitDriver == Init /\ edges = CandidateEdges

SpecDriver == InitDriver /\ [][NextDriver]_vars

KeywordQueries ==
    {"use Foo", "Use foo", "the bar", "THE bar", " the  bar", "bar how", "bar",
     "how to", "to", "zzz"}

KeywordRequest(w) ==
    \/ \E q \in KeywordQueries : ChatReceive(w, q, <<>>)
    \/ DriverCheck(w)
    \/ DriverNew(w)
    \/ DriverVerify(w)
    \/ IdxShow(w)
    \/ IdxDrop(w)
    \/ IdxCreate(w)
    \/ DriverReturn(w)
    \/ Embed(w)
    \/ VecFunction(w)
    \/ VecFile(w)
    \/ Traversal(w)
    \/ Path(w)
    \/ KwName(w)
    \/ KwDesc(w)

NextKeywords == KeywordRequest("w1")

InitKeywords == Init /\ edges = CandidateEdges

SpecKeywords == InitKeywords /\ [][NextKeywords]_vars

(***************************************************************************)
(* Properties.                                                             *)
(***************************************************************************)
\* retrieve_graph_context has returned to chat_with_graph.
Retrieved(l) == l.pc = "generate"

RetrievalQueries ==
    {"function_query", "file_query", "traversal_query", "path_query", "name_query",
     "desc_query", "file_context_query", "file_entities_query"}

StageQueries(stage) ==
    CASE stage = "vector" -> {"function_query", "file_query"}
      [] stage = "traversal" -> {"traversal_query"}
      [] stage = "path" -> {"path_query"}
      [] stage = "keyword" -> {"name_query", "desc_query"}
      [] stage = "file" -> {"file_context_query", "file_entities_query"}

\* The stages whose guard holds in the retrieval pass of l.
GuardedStages(l) ==
    {"vector"}
    \cup (IF TraversalGuard(l.entity_results) THEN {"traversal"} ELSE {})
    \cup (IF PathGuard(l.entity_results) THEN {"path"} ELSE {})
    \cup (IF KeywordGuard(l.user_query) THEN {"keyword"} ELSE {})
    \cup (IF FileContextGuard(l.entity_results) THEN {"file"} ELSE {})

\* C1: when the query of one stage raises, every other stage whose guard
\* holds has still run a query by the time retrieve_graph_context returns
\* (in particular path, keyword and file-context after a failed traversal),
\* and the evidence appended before the failure is still in the context.
C1_StageFailureContained ==
    \A w \in Workers :
        LET l == local[w]
        IN  (Retrieved(l) /\ l.failed # "none") =>
                \A stage \in GuardedStages(l) :
                    l.failed \notin StageQueries(stage) =>
                        StageQueries(stage) \cap Range(l.calls) # {}

\* A text is the empty string when it has no token but empty ones.
IsEmptyString(text) == \A k \in 1..Len(text) : text[k] = ""

\* C2: when neither the vector stage nor the keyword stage has a hit, the
\* function returns exactly the sentinel; it never returns the empty
\* string; and it returns the sentinel only when the evidence list is empty.
C2_SentinelIffNoEvidence ==
    \A w \in Workers :
        LET l == local[w]
        IN  Retrieved(l) =>
                /\ (l.entity_results = <<>> /\ l.name_results = <<>> /\ l.desc_results = <<>>)
                        => l.graph_context = Sentinel
                /\ ~IsEmptyString(l.graph_context)
                /\ (l.graph_context = Sentinel) <=> (l.context = <<>>)

\* A pass with keywords in which both keyword queries ran and nothing was
\* found by any stage: the sentinel is returned.
C2_Witness ==
    \E w \in Workers :
        LET l == local[w]
        IN  /\ Retrieved(l)
            /\ l.failed = "none"
            /\ {"function_query", "file_query", "name_query", "desc_query"} \subseteq Range(l.calls)
            /\ l.entity_results = <<>> /\ l.name_results = <<>> /\ l.desc_results = <<>>
            /\ l.graph_context = Sentinel

\* The embedding call of the request of l gave no vector: it returned
\* Empty or the provider raised.
NoEmbedding(l) == "get_embeddings" \in Range(l.calls) /\ l.query_embedding = 0

\* C3: when the embedding of the query is Empty or the provider fails, the
\* request ends with status 500 and has made no retrieval query and no call
\* of the generative model.
C3_NoEmbeddingAborts ==
    \A w \in Workers :
        LET l == local[w]
        IN  NoEmbedding(l) =>
                /\ l.pc = "done"
                /\ l.response.status = 500
                /\ Range(l.calls) \cap (RetrievalQueries \cup {"generate_content"}) = {}

\* The embedding came back Empty and the request ended with the 500 of the
\* view; and, in another request, the provider raised.
C3_Witness ==
    \E w \in Workers :
        LET l == local[w]
        IN  /\ NoEmbedding(l)
            /\ l.pc = "done"
            /\ l.raised = "none"
            /\ l.response = NoEmbeddingResponse

\* C4: a request in which the store was unreachable, at the connectivity
\* check or at any later statement, never ends with a success: its status
\* is 500 or 503.
C4_UnreachableSurfaced ==
    \A w \in Workers :
        LET l == local[w]
        IN  (l.pc = "done" /\ l.unreachable) => l.response.status \in {500, 503}

\* The stage that wrote a sentence, read off its fixed words: 1 vector,
\* 2 traversal, 3 path, 4 keyword-name, 5 keyword-description, 6 file-context.
SentenceStage(sentence) ==
    CASE sentence[1] = "In file '" -> 1
      [] sentence[1] = "Via graph traversal: In file '" -> 2
      [] sentence[1] = "Via path connection: In file '" -> 3
      [] sentence[1] = "Found a " -> 4
      [] sentence[1] = "The " /\ sentence[3] = " '" -> 5
      [] sentence[1] = "The " /\ sentence[3] = " file '" -> 6
      [] sentence[1] = "The file '" -> 6
      [] OTHER -> 0

\* The lines of a returned context string: its pieces between "\n" tokens.
ContextLines(text) == SplitOn(text, {"\n"}, <<>>)

\* C5: the returned context string is the evidence sentences joined by
\* newlines, and along it the stages never go backwards: vector, traversal,
\* path, keyword-name, keyword-description, file-context.
C5_StageOrder ==
    \A w \in Workers :
        LET l == local[w]
            lines == ContextLines(l.graph_context)
        IN  (Retrieved(l) /\ l.context # <<>>) =>
                /\ lines = l.context
                /\ \A i, j \in 1..Len(lines) :
                        i < j => /\ SentenceStage(lines[i]) # 0
                                 /\ SentenceStage(lines[i]) <= SentenceStage(lines[j])

\* A returned context string with a sentence of each of the six stages.
C5_Witness ==
    \E w \in Workers :
        LET l == local[w]
            lines == ContextLines(l.graph_context)
        IN  /\ Retrieved(l)
            /\ {SentenceStage(lines[k]) : k \in 1..Len(lines)} = 1..6

ErrorTypes ==
    {"BadRequest", "NotFound", "DatabaseConnectionError", "GoogleAPIError",
     "InternalServerError"}

SpecErrorTypes ==
    {"BadRequest", "NotFound", "DatabaseConnectionError", "UpstreamAPIError",
     "InternalServerError"}

\* The request of l ended in an error handler.
Handled(l) == l.pc = "done" /\ l.raised # "none"

\* The embedding or generation provider raised in the request of l.
ProviderFailed(l) ==
    /\ Handled(l)
    /\ l.calls # <<>>
    /\ l.calls[Len(l.calls)] \in {"get_embeddings", "generate_content"}

EnvelopeShaped(r) ==
    /\ DOMAIN r.body = {"status", "message", "error_type"}
    /\ r.body.status = r.status

\* C6, as amended: every response of an error handler has the shape
\* {status, message, error_type} with error_type one of BadRequest, NotFound,
\* DatabaseConnectionError, GoogleAPIError, InternalServerError; a provider
\* failure is reported with status 500, and with error_type GoogleAPIError
\* when the provider raised a GoogleAPIError.
C6_EnvelopeGoogleAPIError ==
    \A w \in Workers :
        LET l == local[w]
        IN  /\ Handled(l) =>
                /\ EnvelopeShaped(l.response)
                /\ l.response.body.error_type \in ErrorTypes
            /\ ProviderFailed(l) =>
                /\ l.response.status = 500
                /\ (l.raised = "GoogleAPIError"
                        => l.response.body.error_type = "GoogleAPIError")

\* The generative model raised a GoogleAPIError after a retrieval, and the
\* handler answered.
C6_Witness ==
    \E w \in Workers :
        LET l == local[w]
        IN  /\ ProviderFailed(l)
            /\ l.raised = "GoogleAPIError"
            /\ "generate_content" \in Range(l.calls)
            /\ l.response = handle_google_api_error

\* C6, as stated: the error types are BadRequest, NotFound,
\* DatabaseConnectionError, UpstreamAPIError, InternalServerError, and a
\* provider failure is reported with status 500 and UpstreamAPIError.
C6_EnvelopeUpstreamAPIError ==
    \A w \in Workers :
        LET l == local[w]
        IN  /\ Handled(l) =>
                /\ EnvelopeShaped(l.response)
                /\ l.response.body.error_type \in SpecErrorTypes
            /\ (ProviderFailed(l) /\ l.raised = "GoogleAPIError") =>
                /\ l.response.status = 500
                /\ l.response.body.error_type = "UpstreamAPIError"

SameEntity(a, b) == a.name = b.name /\ a.filePath = b.filePath

\* C7: no row of the traversal query is a seed of that query, the seeds
\* being the vector results, compared by (name, location).
C7_NoSeedInTraversal ==
    \A w \in Workers :
        LET l == local[w]
        IN  \A k \in 1..Len(l.traversal_results), j \in 1..Len(l.entity_results) :
                ~SameEntity(l.traversal_results[k], l.entity_results[j])

\* The (name, location) an entity sentence renders, read off the sentence.
RenderedEntity(sentence) ==
    IF SentenceStage(sentence) \in {1, 2, 3}
    THEN <<sentence[6], sentence[2]>>
    ELSE <<sentence[4], sentence[6]>>

\* C8: no entity, identified by (name, location), is rendered by two entity
\* sentences of one evidence list.
C8_EvidenceDeduplicated ==
    \A w \in Workers :
        LET ctx == local[w].context
        IN  \A i, j \in 1..Len(ctx) :
                (/\ i < j
                 /\ SentenceStage(ctx[i]) \in 1..5
                 /\ SentenceStage(ctx[j]) \in 1..5)
                    => RenderedEntity(ctx[i]) # RenderedEntity(ctx[j])

\* C9: no vector query runs against an index that still has the stale
\* dimension.
C9_NoStaleVectorQuery ==
    \A w \in Workers : StaleDim \notin Range(local[w].index_seen)

\* The contents of the conversation turns a prompt shows, in order.
TurnContents == {Turn(i).content : i \in 1..(MaxTurns + 1)}
PromptContents(prompt) == SelectSeq(prompt, LAMBDA t : t \in TurnContents)

\* C10: the prompt shows exactly the last min(n, 5) turns of a history of
\* n turns, in their order, and no older turn.
C10_LastFiveTurns ==
    \A w \in Workers :
        LET l == local[w]
            n == Len(l.history)
            m == IF n < 5 THEN n ELSE 5
        IN  "generate_content" \in Range(l.calls) =>
                PromptContents(l.prompt) = [i \in 1..m |-> l.history[n - m + i].content]

\* A prompt built from 7 turns shows turns 3 to 7.
C10_Witness ==
    \E w \in Workers :
        LET l == local[w]
        IN  /\ "generate_content" \in Range(l.calls)
            /\ Len(l.history) = 7
            /\ PromptContents(l.prompt) = <<"t3", "t4", "t5", "t6", "t7">>

\* " ".join of a list of words, as characters.
RECURSIVE JoinWords(_)
JoinWords(words) ==
    IF words = <<>> THEN <<>>
    ELSE IF Len(words) = 1 THEN words[1]
         ELSE words[1] \o <<" ">> \o JoinWords(Tail(words))

\* Two queries that differ only in the case of their letters.
SameUpToCase(q1, q2) == Lower(Chars(q1)) = Lower(Chars(q2))

\* The words of a query that are no stop word in any case.
NonStopWords(q) == SelectSeq(PySplit(Chars(q)), LAMBDA w : Lower(w) \notin StopWords)

\* Two queries that differ only in the stop words they contain.
SameUpToStopWords(q1, q2) == NonStopWords(q1) = NonStopWords(q2)

\* The keyword stage of the request of l has computed its keyword list.
Tokenized(l) == l.pc \in {"kw_desc", "file_ctx"} \/ l.failed \in {"name_query", "desc_query"}

\* C11: the keyword list of a request is a fixed point of the tokenization
\* (tokenizing its space-joined words gives the same list), and every query
\* that differs from the request's only in letter case, or only in the stop
\* words it contains, has the same keyword set.
C11_TokenizeIdempotentCaseBlind ==
    \A w \in Workers :
        LET l == local[w]
        IN  Tokenized(l) =>
                /\ KeywordList(JoinWords(l.keywords)) = l.keywords
                /\ \A q \in KeywordQueries :
                        (SameUpToCase(l.user_query, q) \/ SameUpToStopWords(l.user_query, q))
                            => Range(Keywords(q)) = Range(l.keywords)

\* The keyword stage has run on "THE bar": an upper-case stop word and one
\* keyword, as for "the bar" and for "bar".
C11_Witness ==
    \E w \in Workers :
        LET l == local[w]
        IN  /\ Tokenized(l)
            /\ l.user_query = "THE bar"
            /\ l.keywords = <<Chars("bar")>>
            /\ SameUpToCase(l.user_query, "the bar")
            /\ SameUpToStopWords(l.user_query, "bar")

\* The body of the request of l was a JSON object whose query field is
\* missing or empty.
MissingQuery(l) == l.pc # "idle" /\ l.raised = "none" /\ ~Truthy(l.user_query)

\* C12: a request whose query field is missing or empty ends with status
\* 400 and the body {"response": "Please provide a query."}, which is not
\* the error envelope, and it has made no driver, no store connection, no
\* embedding call, no retrieval query and no call of the generative model.
C12_MissingQuery400 ==
    \A w \in Workers :
        LET l == local[w]
        IN  MissingQuery(l) =>
                /\ l.pc = "done"
                /\ l.response.status = 400
                /\ l.response.body = [response |-> "Please provide a query."]
                /\ ~EnvelopeShaped(l.response)
                /\ l.calls = <<>>
                /\ l.index_seen = <<>>
                /\ l.driver = NULL
                /\ neo4j_driver # w

\* A request with an empty query has been answered.
C12_Witness ==
    \E w \in Workers :
        LET l == local[w]
        IN  /\ MissingQuery(l)
            /\ l.user_query = ""
            /\ l.pc = "done"
            /\ l.response.status = 400

\* C13: get_neo4j_driver returns only a driver whose connectivity check has
\* succeeded: not the driver left by a failed attempt, and not the driver
\* another caller is still initializing.
C13_OnlyVerifiedDriverReturned ==
    \A w \in Workers :
        local[w].driver # NULL => local[w].driver \in verified

\* The call log has a call of the query a before a call of the query b.
CalledInOrder(calls, a, b) ==
    \E i, j \in 1..Len(calls) : i < j /\ calls[i] = a /\ calls[j] = b

\* C14: a retrieval pass whose query has keywords has run the name match
\* and then the description match by the time it returns, whatever the
\* vector stage gave; a pass whose query has no keyword has run neither.
C14_KeywordStageAlwaysRuns ==
    \A w \in Workers :
        LET l == local[w]
        IN  Retrieved(l) =>
                IF KeywordGuard(l.user_query)
                THEN CalledInOrder(l.calls, "name_query", "desc_query")
                ELSE {"name_query", "desc_query"} \cap Range(l.calls) = {}

\* Both vector queries of the pass of l were answered: the merged list was
\* built.
Merged(l) ==
    "file_query" \in Range(l.calls) /\ l.failed \notin {"function_query", "file_query"}

\* The rows of a merged vector result list: the rows of the function index
\* first, the rows of the file index after them.
FunctionRowsFirst(l) ==
    /\ Len(l.function_results) <= Len(l.entity_results)
    /\ SubSeq(l.entity_results, 1, Len(l.function_results)) = l.function_results
    /\ \A k \in (Len(l.function_results) + 1)..Len(l.entity_results) :
            l.entity_results[k].type = "File"

\* C15: by the time a retrieval pass returns, it has issued the traversal
\* query and the file-context query exactly when the merged vector result
\* list is not empty, and the path query exactly when the list has two
\* entries or more, between the names of its first two entries, the rows of
\* the function index standing before the rows of the file index.
C15_StageGuards ==
    \A w \in Workers :
        LET l == local[w]
            issued == Range(l.calls)
        IN  Retrieved(l) =>
                /\ ("traversal_query" \in issued) <=> (l.entity_results # <<>>)
                /\ ("file_context_query" \in issued) <=> (l.entity_results # <<>>)
                /\ ("path_query" \in issued) <=> (Len(l.entity_results) >= 2)
                /\ ("path_query" \in issued) =>
                        l.top_entities = <<l.entity_results[1].name, l.entity_results[2].name>>
                /\ Merged(l) => FunctionRowsFirst(l)

\* The nodes whose (name, location) is that of a seed, the location of a
\* node being its file_path or else its path.
SeedNodes(entity_results) ==
    {i \in NodeIds :
        \E k \in 1..Len(entity_results) :
            /\ Node(i).name = entity_results[k].name
            /\ Coalesce(Node(i).file_path, Node(i).path) = entity_results[k].filePath}

\* The entity id of the seed, split again, gives back its name and its
\* location.
RoundTrips(res) ==
    SplitEntityId(EntityId(res)) = [name |-> Chars(res.name), filePath |-> Chars(res.filePath)]

\* C16: when the traversal query is issued, every seed's entity id decodes
\* to the seed's (name, location), and the nodes the traversal starts from
\* are exactly the nodes with the (name, location) of a seed.
C16_SeedRoundTrip ==
    \A w \in Workers :
        LET l == local[w]
        IN  "traversal_query" \in Range(l.calls) =>
                /\ \A k \in 1..Len(l.entity_results) : RoundTrips(l.entity_results[k])
                /\ l.start_nodes = SeedNodes(l.entity_results)

====
